---- MODULE Spec2Model ----
(***************************************************************************)
(* The C bindings of the Thud rule engine (src/src/lib.rs), modelled as a   *)
(* state machine.  The state is the one heap allocation a game handle       *)
(* points to (its allocation status and the bytes stored there), the        *)
(* last foreign call with its arguments and the value it returned.          *)
(*                                                                          *)
(* The engine itself (crate `thud`: Thud, Coord, Direction, Board) is not   *)
(* part of lib.rs; its operations are modelled from the specification.      *)
(***************************************************************************)
EXTENDS Integers, Sequences, FiniteSets, TLC

VARIABLES
    thudAlloc,   \* status of the allocation behind the game handle: "live" or "freed"
    game,        \* the Thud value stored at the handle's address
    frees,       \* how many times the allocation has been deallocated
    destroyed,   \* TRUE once thud_destroy has been called with the handle
    call,        \* the last foreign call: [op, thud, src, dest, targets]
    ret,         \* its integer return value: <<v>>, or <<>> when it did not return one
    engineRes,   \* what the engine answered inside the call: "Ok", an error kind, or "none"
    seen,        \* the Thud value the call read through the handle
    errRets,     \* for each engine error kind, the return values it has been reported as
    outPtr,      \* the pointer a query returned: "none", "null" or "dangling"
    scoreOut,    \* what the caller reads behind the pointer returned by thud_get_score
    boardOut,    \* what the caller reads behind the pointer returned by thud_get_board
    crashed,     \* TRUE once the process has been aborted
    ncalls,      \* number of foreign calls made
    coordOut     \* the last coord_new: its arguments, the pointer returned, its allocation

thudVars == <<thudAlloc, game, frees, destroyed, call, ret, engineRes, seen, errRets,
             outPtr, scoreOut, boardOut, crashed, ncalls>>

vars == <<thudVars, coordOut>>

-----------------------------------------------------------------------------
(* Bounds of the model *)

\* number of foreign calls in one run
MaxCalls == 3

\* coord_new is called with every pair of indices up to MaxXY, and with a
\* c_uint far outside the grid
MaxXY == 15
LargeCUint == 2147483647

-----------------------------------------------------------------------------
(* Board geometry (crate thud, modelled from the specification) *)

Size == 15
Idx == 0 .. (Size - 1)
Grid == Idx \X Idx
Centre == <<7, 7>>

\* Coord::zero_based: the playable octagon is the 15 by 15 grid without its
\* four corner triangles of side 5.
InOctagon(x, y) ==
    /\ x \in Idx /\ y \in Idx
    /\ x + y >= 5
    /\ (14 - x) + y >= 5
    /\ x + (14 - y) >= 5
    /\ (14 - x) + (14 - y) >= 5

Octagon == {c \in Grid : InOctagon(c[1], c[2])}

\* the null pointer to a Coord or to a targets array, and a Coord value
NullPtr == <<>>

zero_based(x, y) == IF InOctagon(x, y) THEN [ok |-> TRUE, coord |-> <<x, y>>]
                                       ELSE [ok |-> FALSE, coord |-> NullPtr]

\* Direction: eight compass directions, Right = 0, numbered clockwise
DirVec == <<  <<1, 0>>, <<1, 1>>, <<0, 1>>, <<-1, 1>>,
              <<-1, 0>>, <<-1, -1>>, <<0, -1>>, <<1, -1>>  >>
Directions == 0 .. 7

from_num(i) == IF i \in Directions THEN [ok |-> TRUE, dir |-> i]
                                   ELSE [ok |-> FALSE, dir |-> 0]

Step(c, d, n) == <<c[1] + n * DirVec[d + 1][1], c[2] + n * DirVec[d + 1][2]>>
Adjacent(c) == {Step(c, d, 1) : d \in Directions} \cap Octagon

Sgn(n) == IF n > 0 THEN 1 ELSE IF n < 0 THEN -1 ELSE 0
Abs(n) == IF n < 0 THEN -n ELSE n
Max(a, b) == IF a > b THEN a ELSE b

\* src and dest lie on one line along one of the 8 directions
Straight(src, dest) ==
    LET dx == dest[1] - src[1]
        dy == dest[2] - src[2]
    IN  /\ src # dest
        /\ (dx = 0 \/ dy = 0 \/ Abs(dx) = Abs(dy))

\* the cells strictly between src and dest on a straight line
Between(src, dest) ==
    LET dx == dest[1] - src[1]
        dy == dest[2] - src[2]
        n  == Max(Abs(dx), Abs(dy))
    IN  {<<src[1] + k * Sgn(dx), src[2] + k * Sgn(dy)>> : k \in 1 .. (n - 1)}

KingStep(src, dest) ==
    /\ src # dest
    /\ Abs(dest[1] - src[1]) <= 1
    /\ Abs(dest[2] - src[2]) <= 1

-----------------------------------------------------------------------------
(* The starting layout *)

DwarfStart ==
    {c \in Octagon : \/ c[1] + c[2] = 5
                     \/ (14 - c[1]) + c[2] = 5
                     \/ c[1] + (14 - c[2]) = 5
                     \/ (14 - c[1]) + (14 - c[2]) = 5}
    \cup {<<6, 0>>, <<8, 0>>, <<6, 14>>, <<8, 14>>,
          <<0, 6>>, <<0, 8>>, <<14, 6>>, <<14, 8>>}

TrollStart == {c \in Grid : KingStep(Centre, c)}

\* Board: the cells holding a Dwarf, a Troll and the Thudstone; every other
\* cell is Empty
BoardOf(dwarfs, trolls) ==
    [dwarfs |-> dwarfs, trolls |-> trolls, stones |-> {Centre}]

\* Board::get
PieceAt(b, c) ==
    IF c \in b.stones THEN "Thudstone"
    ELSE IF c \in b.dwarfs THEN "Dwarf"
    ELSE IF c \in b.trolls THEN "Troll"
    ELSE "Empty"

\* the number of cells of the octagon that hold piece p
Count(b, p) ==
    LET cells == IF p = "Thudstone" THEN b.stones
                 ELSE IF p = "Dwarf" THEN b.dwarfs \ b.stones
                 ELSE b.trolls \ (b.stones \cup b.dwarfs)
    IN  Cardinality(cells \cap Octagon)

Opp(player) == IF player = "Dwarf" THEN "Troll" ELSE "Dwarf"

\* Thud::new()
ThudNew ==
    [board |-> BoardOf(DwarfStart, TrollStart),
     turn  |-> "Dwarf",
     dwarfScore |-> 0,
     trollScore |-> 0,
     state |-> "InProgress"]

-----------------------------------------------------------------------------
(* The rules (crate thud, modelled from the specification, sections 4.3, 4.4) *)

\* the side `player` has a legal slide, step-and-smash or stationary capture
HasAction(b, player) ==
    IF player = "Dwarf"
    THEN \E c \in b.dwarfs : \E a \in Adjacent(c) : PieceAt(b, a) \in {"Empty", "Troll"}
    ELSE \E c \in b.trolls : \E a \in Adjacent(c) : PieceAt(b, a) = "Empty"

\* the end-state evaluated after a successful operation made by `mover`
EndStateAfter(b, mover) ==
    IF Count(b, "Dwarf") = 0 THEN "WonTroll"
    ELSE IF Count(b, "Troll") = 0 THEN "WonDwarf"
    ELSE IF HasAction(b, Opp(mover)) THEN "InProgress"
    ELSE IF HasAction(b, mover) THEN (IF mover = "Dwarf" THEN "WonDwarf" ELSE "WonTroll")
    ELSE "Draw"

\* the game after a successful operation: new board and score, turn advanced,
\* end-state re-evaluated
Advance(g, b, ds, ts) ==
    LET st == EndStateAfter(b, g.turn)
    IN  [board |-> b,
         turn  |-> IF st = "InProgress" THEN Opp(g.turn) ELSE "None",
         dwarfScore |-> ds,
         trollScore |-> ts,
         state |-> st]

Reject(g, why) == [res |-> why, game |-> g]

\* GameOver once ended, WrongTurn when `player` is not the side to move
Precheck(g, player) ==
    IF g.state # "InProgress" THEN "GameOver"
    ELSE IF g.turn # player THEN "WrongTurn"
    ELSE "Ok"

\* Thud::move_piece: the Dwarf slide-move
move_piece(g, src, dest) ==
    IF Precheck(g, "Dwarf") # "Ok" THEN Reject(g, Precheck(g, "Dwarf"))
    ELSE IF \/ PieceAt(g.board, src) # "Dwarf"
            \/ PieceAt(g.board, dest) # "Empty"
            \/ ~Straight(src, dest)
            \/ \E c \in Between(src, dest) : PieceAt(g.board, c) # "Empty"
         THEN Reject(g, "IllegalMove")
    ELSE [res  |-> "Ok",
          game |-> Advance(g, [g.board EXCEPT !.dwarfs = (@ \ {src}) \cup {dest}],
                           g.dwarfScore, g.trollScore)]

\* Thud::attack: the Troll step-and-smash
attack(g, src, dest) ==
    IF Precheck(g, "Troll") # "Ok" THEN Reject(g, Precheck(g, "Troll"))
    ELSE IF \/ PieceAt(g.board, src) # "Troll"
            \/ PieceAt(g.board, dest) # "Empty"
            \/ ~KingStep(src, dest)
         THEN Reject(g, "IllegalMove")
    ELSE LET smashed == {c \in Adjacent(dest) : PieceAt(g.board, c) = "Dwarf"}
             b == [g.board EXCEPT !.trolls = (@ \ {src}) \cup {dest},
                                  !.dwarfs = @ \ smashed]
         IN  [res  |-> "Ok",
              game |-> Advance(g, b, g.dwarfScore, g.trollScore + Cardinality(smashed))]

\* Thud::troll_cap: the Dwarf stationary multi-capture; dirs is the Vec of
\* requested directions
troll_cap(g, src, dirs) ==
    LET want == {dirs[i] : i \in 1 .. Len(dirs)}
        hit  == {Step(src, d, 1) : d \in want}
    IN  IF Precheck(g, "Dwarf") # "Ok" THEN Reject(g, Precheck(g, "Dwarf"))
        ELSE IF \/ PieceAt(g.board, src) # "Dwarf"
                \/ want = {}
                \/ \E c \in hit : c \notin Octagon \/ PieceAt(g.board, c) # "Troll"
             THEN Reject(g, "IllegalMove")
        ELSE [res  |-> "Ok",
              game |-> Advance(g, [g.board EXCEPT !.trolls = @ \ hit],
                               g.dwarfScore + Cardinality(want), g.trollScore)]

\* Thud::turn, Thud::winner, Thud::score
turn(g) == g.turn
winner(g) == g.state
score(g) == <<g.dwarfScore, g.trollScore>>

\* Board::full_raw: every cell of the bounding square, Empty outside the octagon
full_raw(g) == [c \in Grid |-> IF c \in Octagon THEN PieceAt(g.board, c) ELSE "Empty"]

-----------------------------------------------------------------------------
(* Inputs of the foreign calls *)

\* index pairs handed to coord_new for a source and for a destination;
\* <<0, 0>> lies in a cut corner
SrcXY == {<<0, 0>>, <<5, 0>>, <<6, 0>>, <<6, 5>>, <<6, 6>>}
DestXY == {<<0, 0>>, <<7, 0>>, <<6, 5>>, <<5, 6>>}

\* a coord_new that checks the pair against the grid only
CoordNewInGrid(x, y) ==
    IF x \in Idx /\ y \in Idx THEN <<x, y>> ELSE NullPtr

\* coord_new: a pointer to the new Coord, or the null pointer
coord_new(x, y) ==
    IF zero_based(x, y).ok THEN zero_based(x, y).coord ELSE NullPtr

\* the arguments coord_new is called with
CoordArgs == (0 .. MaxXY) \cup {LargeCUint}

NoCoord == [op |-> "none", args |-> <<>>, ptr |-> NullPtr, alloc |-> "none"]

\* a call of coord_new: the Coord is boxed and the Box leaked to the caller,
\* or the null pointer is returned; no game is touched
CoordNew(x, y) ==
    /\ coordOut' = [op |-> "coord_new", args |-> <<x, y>>, ptr |-> coord_new(x, y),
                    alloc |-> IF coord_new(x, y) = NullPtr THEN "none" ELSE "live"]
    /\ UNCHANGED thudVars

\* coord_destroy: a non-null Coord is released; the caller passes null or the
\* coordinate it holds
coord_destroy(coord_raw) ==
    /\ coord_raw # NullPtr => coordOut.alloc = "live"
    /\ coordOut' = IF coord_raw # NullPtr
                   THEN [coordOut EXCEPT !.op = "coord_destroy", !.alloc = "freed"]
                   ELSE [coordOut EXCEPT !.op = "coord_destroy"]
    /\ UNCHANGED thudVars

SrcPtrs == {coord_new(p[1], p[2]) : p \in SrcXY}
DestPtrs == {coord_new(p[1], p[2]) : p \in DestXY}

\* the game pointer: null, or the handle thud_new returned
ThudPtrs == {"null", "handle"}

\* targets arrays: nothing requested, down (slot 2), down-right and down
\* (slots 1 and 2), and down with a value in slot 1 that is neither 0 nor 1;
\* the null pointer stands for a missing array
TargetArrays == {<<0, 0, 0, 0, 0, 0, 0, 0>>, <<0, 0, 1, 0, 0, 0, 0, 0>>,
                 <<0, 1, 1, 0, 0, 0, 0, 0>>, <<0, 9, 1, 0, 0, 0, 0, 0>>}
TargetPtrs == {NullPtr} \cup TargetArrays

FailReasons == {"WrongTurn", "IllegalMove", "GameOver"}

-----------------------------------------------------------------------------
(* Freed memory.  A call that reads the game through a handle whose          *)
(* allocation was already released has undefined behaviour: it finds the     *)
(* old bytes, or whatever the allocator put there since, or it aborts.       *)

\* a late position, Troll to move: one Troll next to the last Dwarf
LateTroll ==
    [board |-> BoardOf({<<6, 5>>}, {<<6, 6>>}),
     turn |-> "Troll", dwarfScore |-> 7, trollScore |-> 31, state |-> "InProgress"]

\* a late position, Dwarf to move: two Trolls next to the Dwarf at <<6, 5>>,
\* and a third Troll in the top row with Dwarfs on every cell around it
LateDwarf ==
    [board |-> BoardOf({<<6, 5>>, <<6, 0>>, <<7, 0>>, <<9, 0>>, <<7, 1>>, <<8, 1>>, <<9, 1>>},
                       {<<6, 6>>, <<7, 6>>, <<8, 0>>}),
     turn |-> "Dwarf", dwarfScore |-> 5, trollScore |-> 25, state |-> "InProgress"]

\* an ended game: the last Troll was captured
Ended ==
    [board |-> BoardOf({<<6, 5>>}, {}),
     turn |-> "None", dwarfScore |-> 8, trollScore |-> 31, state |-> "WonDwarf"]

ReusedMemory == {LateTroll, LateDwarf, Ended}

\* the values Box::from_raw(thud_raw) can yield
Deref == IF thudAlloc = "live" THEN {game} ELSE {game} \cup ReusedMemory

-----------------------------------------------------------------------------
(* The foreign functions of lib.rs *)

\* piece_to_int
piece_to_int(piece) ==
    CASE piece = "Empty" -> 0
      [] piece = "Dwarf" -> 1
      [] piece = "Troll" -> 2
      [] piece = "Thudstone" -> 3

\* the null checks that open thud_move, thud_attack and thud_troll_cap
AnyNull(thud_raw, a_raw, b_raw) ==
    thud_raw = "null" \/ a_raw = NullPtr \/ b_raw = NullPtr

\* faulty variants of the result matches: an error reported as success, and
\* a rules violation reported with the code of a malformed direction
AttackRetIgnoringError(res) == 0
TrollCapRetAsMalformed(res) == IF res = "Ok" THEN 0 ELSE -3

\* the match on the engine's Result in thud_move, thud_attack, thud_troll_cap
MoveRet(res) == IF res = "Ok" THEN 0 ELSE -2
AttackRet(res) == IF res = "Ok" THEN 0 ELSE -2
TrollCapRet(res) == IF res = "Ok" THEN 0 ELSE -2

\* the match on Thud::turn() in thud_get_turn
TurnRet(t) ==
    IF t = "Dwarf" THEN 0 ELSE IF t = "Troll" THEN 1 ELSE 2

\* the match on Thud::winner() in thud_get_winner
WinnerRet(w) ==
    IF w = "WonDwarf" THEN 0
    ELSE IF w = "WonTroll" THEN 1
    ELSE IF w = "Draw" THEN 2
    ELSE 3

\* a foreign call is entered; the caller passes a handle only until it has
\* handed it to thud_destroy
Enter(c) ==
    /\ ~crashed
    /\ ncalls < MaxCalls
    /\ c.thud = "handle" => ~destroyed
    /\ ncalls' = ncalls + 1
    /\ call' = c
    /\ UNCHANGED coordOut

NoCall == [op |-> "none", thud |-> "null", src |-> NullPtr, dest |-> NullPtr,
           targets |-> NullPtr]

\* an early `return v`: nothing was read or written through the handle
EarlyReturn(v) ==
    /\ ret' = <<v>>
    /\ engineRes' = "none"
    /\ UNCHANGED <<thudAlloc, game, frees, destroyed, seen, errRets, crashed>>

\* the Box made by Box::from_raw goes out of scope at the end of the function:
\* the Thud is dropped and its allocation released
DropBox(after) ==
    /\ game' = after
    /\ thudAlloc' = "freed"
    /\ frees' = frees + 1

\* the call ran on the value g it read, the engine answered res, and the
\* integers rv (one or none) are returned
Returned(g, after, res, rv) ==
    /\ DropBox(after)
    /\ seen' = g
    /\ engineRes' = res
    /\ ret' = rv
    /\ errRets' = IF res \in FailReasons
                  THEN [errRets EXCEPT ![res] = @ \cup {rv[1]}]
                  ELSE errRets
    /\ UNCHANGED <<destroyed, crashed>>

\* the use of a released allocation (or its second release) is detected and
\* the process is aborted
Abort ==
    /\ thudAlloc = "freed"
    /\ crashed' = TRUE
    /\ ret' = <<>>
    /\ engineRes' = "none"
    /\ UNCHANGED <<thudAlloc, game, frees, destroyed, seen, errRets>>

NoOut == UNCHANGED <<outPtr, scoreOut, boardOut>>

\* thud_new
thud_new ==
    /\ Enter([NoCall EXCEPT !.op = "thud_new"])
    /\ game' = ThudNew
    /\ thudAlloc' = "live"
    /\ frees' = 0
    /\ destroyed' = FALSE
    /\ seen' = ThudNew
    /\ ret' = <<>>
    /\ engineRes' = "none"
    /\ NoOut
    /\ UNCHANGED <<errRets, crashed>>

\* thud_destroy
thud_destroy(thud_raw) ==
    /\ Enter([NoCall EXCEPT !.op = "thud_destroy", !.thud = thud_raw])
    /\ NoOut
    /\ IF thud_raw = "null"
       THEN /\ ret' = <<>>
            /\ engineRes' = "none"
            /\ UNCHANGED <<thudAlloc, game, frees, destroyed, seen, errRets, crashed>>
       ELSE \/ /\ DropBox(game)
               /\ destroyed' = TRUE
               /\ ret' = <<>>
               /\ engineRes' = "none"
               /\ UNCHANGED <<seen, errRets, crashed>>
            \/ Abort

\* thud_move
thud_move(thud_raw, src_raw, dest_raw) ==
    /\ Enter([NoCall EXCEPT !.op = "thud_move", !.thud = thud_raw,
                            !.src = src_raw, !.dest = dest_raw])
    /\ NoOut
    /\ IF AnyNull(thud_raw, src_raw, dest_raw)
       THEN EarlyReturn(-1)
       ELSE \/ \E g \in Deref :
                 LET r == move_piece(g, src_raw, dest_raw)
                 IN  Returned(g, r.game, r.res, <<MoveRet(r.res)>>)
            \/ Abort

\* thud_attack
thud_attack(thud_raw, src_raw, dest_raw) ==
    /\ Enter([NoCall EXCEPT !.op = "thud_attack", !.thud = thud_raw,
                            !.src = src_raw, !.dest = dest_raw])
    /\ NoOut
    /\ IF AnyNull(thud_raw, src_raw, dest_raw)
       THEN EarlyReturn(-1)
       ELSE \/ \E g \in Deref :
                 LET r == attack(g, src_raw, dest_raw)
                 IN  Returned(g, r.game, r.res, <<AttackRet(r.res)>>)
            \/ Abort

\* the loop of thud_troll_cap over the 8 slots: slot i is requested when
\* targets[i] == 1; its direction is Direction::from_num(i)
Requested(targets) == {i \in 0 .. 7 : targets[i + 1] = 1}

RECURSIVE AttackDirs(_, _)
AttackDirs(targets, i) ==
    IF i = 8 THEN <<>>
    ELSE (IF i \in Requested(targets) THEN <<from_num(i).dir>> ELSE <<>>)
         \o AttackDirs(targets, i + 1)

\* some requested slot has no Direction: the loop returns -3
InvalidSlot(targets) == \E i \in Requested(targets) : ~from_num(i).ok

\* thud_troll_cap
thud_troll_cap(thud_raw, src_raw, targets_raw) ==
    /\ Enter([NoCall EXCEPT !.op = "thud_troll_cap", !.thud = thud_raw,
                            !.src = src_raw, !.targets = targets_raw])
    /\ NoOut
    /\ IF AnyNull(thud_raw, src_raw, targets_raw)
       THEN EarlyReturn(-1)
       ELSE IF InvalidSlot(targets_raw)
       THEN EarlyReturn(-3)
       ELSE \/ \E g \in Deref :
                 LET r == troll_cap(g, src_raw, AttackDirs(targets_raw, 0))
                 IN  Returned(g, r.game, r.res, <<TrollCapRet(r.res)>>)
            \/ Abort

\* thud_get_turn
thud_get_turn(thud_raw) ==
    /\ Enter([NoCall EXCEPT !.op = "thud_get_turn", !.thud = thud_raw])
    /\ NoOut
    /\ IF thud_raw = "null"
       THEN EarlyReturn(-1)
       ELSE \/ \E g \in Deref : Returned(g, g, "none", <<TurnRet(turn(g))>>)
            \/ Abort

\* thud_get_winner
thud_get_winner(thud_raw) ==
    /\ Enter([NoCall EXCEPT !.op = "thud_get_winner", !.thud = thud_raw])
    /\ NoOut
    /\ IF thud_raw = "null"
       THEN EarlyReturn(-1)
       ELSE \/ \E g \in Deref : Returned(g, g, "none", <<WinnerRet(winner(g))>>)
            \/ Abort

\* what a read through a pointer to a dead stack temporary or to a released
\* Vec buffer can find instead of the value that was stored there
StaleScores == {<<31, 8>>}
StaleBoards == {{}}

\* thud_get_score: the pair is written to a temporary array and a pointer to
\* that temporary is returned
thud_get_score(thud_raw) ==
    /\ Enter([NoCall EXCEPT !.op = "thud_get_score", !.thud = thud_raw])
    /\ UNCHANGED boardOut
    /\ IF thud_raw = "null"
       THEN /\ outPtr' = "null"
            /\ ret' = <<>>
            /\ engineRes' = "none"
            /\ UNCHANGED <<thudAlloc, game, frees, destroyed, seen, errRets, crashed, scoreOut>>
       ELSE \/ \E g \in Deref :
                 /\ Returned(g, g, "none", <<>>)
                 /\ outPtr' = "dangling"
                 /\ scoreOut' \in {score(g)} \cup StaleScores
            \/ Abort /\ UNCHANGED <<outPtr, scoreOut>>

\* the grid thud_get_board builds: 15 rows of 15 piece codes.  A grid is
\* held as the set of its entries <<x, y, code>> with a code other than 0
BoardCodes(g) ==
    LET board == full_raw(g)
    IN  {<<c[1], c[2], piece_to_int(board[c])>> : c \in {e \in Grid : board[e] # "Empty"}}

\* entry [x][y] of a grid
CodeAt(grid, x, y) ==
    IF \E e \in grid : e[1] = x /\ e[2] = y
    THEN (CHOOSE e \in grid : e[1] = x /\ e[2] = y)[3]
    ELSE 0

\* thud_get_board: every row Vec is dropped as soon as its pointer is taken,
\* and the Vec of row pointers is dropped at the return
thud_get_board(thud_raw) ==
    /\ Enter([NoCall EXCEPT !.op = "thud_get_board", !.thud = thud_raw])
    /\ UNCHANGED scoreOut
    /\ IF thud_raw = "null"
       THEN /\ outPtr' = "null"
            /\ ret' = <<>>
            /\ engineRes' = "none"
            /\ UNCHANGED <<thudAlloc, game, frees, destroyed, seen, errRets, crashed, boardOut>>
       ELSE \/ \E g \in Deref :
                 /\ Returned(g, g, "none", <<>>)
                 /\ outPtr' = "dangling"
                 /\ boardOut' \in {BoardCodes(g)} \cup StaleBoards
            \/ Abort /\ UNCHANGED <<outPtr, boardOut>>

-----------------------------------------------------------------------------
(* The state machine *)

\* the state right after thud_new returned the handle
Init ==
    /\ thudAlloc = "live"
    /\ game = ThudNew
    /\ frees = 0
    /\ destroyed = FALSE
    /\ call = [NoCall EXCEPT !.op = "thud_new"]
    /\ ret = <<>>
    /\ engineRes = "none"
    /\ seen = ThudNew
    /\ errRets = [r \in FailReasons |-> {}]
    /\ outPtr = "none"
    /\ scoreOut = <<0, 0>>
    /\ boardOut = {}
    /\ crashed = FALSE
    /\ ncalls = 0
    /\ coordOut = NoCoord

Next ==
    \/ thud_new
    \/ \E t \in ThudPtrs : thud_destroy(t)
    \/ \E t \in ThudPtrs, s \in SrcPtrs, d \in DestPtrs : thud_move(t, s, d)
    \/ \E t \in ThudPtrs, s \in SrcPtrs, d \in DestPtrs : thud_attack(t, s, d)
    \/ \E t \in ThudPtrs, s \in SrcPtrs, a \in TargetPtrs : thud_troll_cap(t, s, a)
    \/ \E t \in ThudPtrs : thud_get_turn(t)
    \/ \E t \in ThudPtrs : thud_get_winner(t)
    \/ \E t \in ThudPtrs : thud_get_score(t)
    \/ \E t \in ThudPtrs : thud_get_board(t)

Spec == Init /\ [][Next]_vars

\* coordinates are built and released next to a game that is created and
\* released
CoordNext ==
    \/ \E x \in CoordArgs, y \in CoordArgs : CoordNew(x, y)
    \/ \E c \in {NullPtr, coordOut.ptr} : coord_destroy(c)
    \/ thud_new
    \/ \E t \in ThudPtrs : thud_destroy(t)

CoordSpec == Init /\ [][CoordNext]_vars

-----------------------------------------------------------------------------
(* Vocabulary of the properties *)

MutatingOps == {"thud_move", "thud_attack", "thud_troll_cap"}
QueryOps == {"thud_get_turn", "thud_get_winner", "thud_get_score", "thud_get_board"}

\* the step just taken was a call of one of `ops` that returned to its caller
Called(ops) == call'.op \in ops /\ ~crashed'

EndedGame(g) == g.state # "InProgress"

-----------------------------------------------------------------------------
(* Properties *)

\* C1: a call of thud_move, thud_attack or thud_troll_cap that returns a
\* value other than 0 leaves the game as it was: board, side to move, score
\* pair and end-state after the call equal those before it.
C1_FailedCallLeavesGame ==
    [][(Called(MutatingOps) /\ ret' # <<0>>) => game' = game]_vars

\* C2: after a successful slide-move, step-and-smash or multi-capture the
\* side to move is the opposite of the side to move before the call, unless
\* the call ended the game, and then thud_get_turn reports 2.
C2_TurnFlips ==
    [][(Called(MutatingOps) /\ ret' = <<0>>)
          => \/ TurnRet(turn(game')) = 2
             \/ /\ turn(game) \in {"Dwarf", "Troll"}
                /\ turn(game') = Opp(turn(game))]_vars

\* C3: once the game is in an end-state it stays in that end-state: every
\* later thud_move, thud_attack and thud_troll_cap on it fails, and board,
\* score and winner do not change again.
C3_EndStateIsFinal ==
    [][(EndedGame(game) /\ call'.op # "thud_new")
          => /\ game' = game
             /\ (Called(MutatingOps) => ret' # <<0>>)]_vars

\* C4 as stated: failures for different reasons (WrongTurn, IllegalMove,
\* GameOver) are reported with pairwise different results.
C4_ReasonsDistinguished ==
    \A r1 \in FailReasons, r2 \in FailReasons :
        r1 # r2 => errRets[r1] \cap errRets[r2] = {}

\* C4 as amended: every WrongTurn, IllegalMove and GameOver failure of
\* thud_move, thud_attack or thud_troll_cap is reported as the one result -2,
\* which differs from success (0), from the null-argument result (-1) and
\* from -3; the three reasons are not distinguished from one another.
C4_FailuresReportedAsMinusTwo ==
    /\ \A r \in FailReasons : errRets[r] \subseteq {-2}
    /\ (call.op \in MutatingOps /\ engineRes \in FailReasons) => ret = <<-2>>
    /\ (call.op \in MutatingOps /\ engineRes = "Ok") => ret = <<0>>

\* two failures with different reasons have both been reported as -2
C4_Witness ==
    \E r1 \in FailReasons, r2 \in FailReasons :
        /\ r1 # r2
        /\ -2 \in errRets[r1]
        /\ -2 \in errRets[r2]
        /\ call.op \in MutatingOps /\ engineRes = r2

\* C5: thud_move and thud_attack return -1 exactly when one of the three
\* pointers is null, and then touch nothing; otherwise 0 exactly when the
\* engine applied the move and -2 exactly when it rejected it; they return
\* nothing else.
C5_MoveAttackReturn ==
    [][Called({"thud_move", "thud_attack"})
          => LET nulls == \/ call'.thud = "null"
                          \/ call'.src = NullPtr
                          \/ call'.dest = NullPtr
             IN  /\ ret' \in {<<-1>>, <<0>>, <<-2>>}
                 /\ (ret' = <<-1>>) <=> nulls
                 /\ nulls => UNCHANGED <<game, thudAlloc, frees>>
                 /\ ~nulls => /\ (ret' = <<0>>) <=> (engineRes' = "Ok")
                              /\ (ret' = <<-2>>) <=> (engineRes' \in FailReasons)
                              /\ (engineRes' = "Ok") <=> (game' # seen')]_vars

\* a step-and-smash was applied and reported as 0
C5_Witness ==
    /\ call.op = "thud_attack"
    /\ ret = <<0>>
    /\ engineRes = "Ok"
    /\ game.trollScore > seen.trollScore

\* C6: thud_troll_cap returns -3 whenever an element of the targets array is
\* not a valid direction value.
C6_MalformedDirectionIsMinusThree ==
    (/\ call.op = "thud_troll_cap"
     /\ ~crashed
     /\ call.thud # "null" /\ call.src # NullPtr /\ call.targets # NullPtr
     /\ \E i \in 1 .. 8 : call.targets[i] \notin {0, 1})
        => ret = <<-3>>

\* C7: the numbers of Dwarfs and of Trolls on the board never increase and
\* never exceed 32 and 8, with one Thudstone; in every step the Trolls lost
\* equal the Dwarf score gained and the Dwarfs lost equal the Troll score
\* gained.
C7_Conservation ==
    [][call'.op # "thud_new"
          => /\ Count(game'.board, "Dwarf") <= Count(game.board, "Dwarf")
             /\ Count(game'.board, "Troll") <= Count(game.board, "Troll")
             /\ Count(game'.board, "Dwarf") <= 32
             /\ Count(game'.board, "Troll") <= 8
             /\ Count(game'.board, "Thudstone") = 1
             /\ Count(game.board, "Troll") - Count(game'.board, "Troll")
                    = game'.dwarfScore - game.dwarfScore
             /\ Count(game.board, "Dwarf") - Count(game'.board, "Dwarf")
                    = game'.trollScore - game.trollScore]_vars

\* C8: thud_get_turn, thud_get_winner, thud_get_score and thud_get_board do
\* not change the game: board, side to move, score and end-state are as
\* before, and the game is as usable by the next call as it was.
C8_QueriesDoNotMutate ==
    [][Called(QueryOps) => (game' = game /\ thudAlloc' = thudAlloc)]_vars

\* C9: the allocation behind a handle stays live until thud_destroy is
\* called with it, and it is released at most once.
C9_HandleValidUntilDestroy ==
    /\ (~destroyed) => thudAlloc = "live"
    /\ frees <= 1

\* C10: a successful thud_attack moves the Troll from src to a dest one cell
\* away, removes exactly the Dwarfs adjacent to dest, adds their number to
\* the Troll score, leaves the Dwarf score alone and passes the turn to Dwarf.
C10_StepAndSmash ==
    [][(Called({"thud_attack"}) /\ ret' = <<0>>)
          => LET src == call'.src
                 dest == call'.dest
                 smashed == Adjacent(dest) \cap game.board.dwarfs
             IN  /\ PieceAt(game.board, src) = "Troll"
                 /\ KingStep(src, dest)
                 /\ game'.board.trolls = (game.board.trolls \ {src}) \cup {dest}
                 /\ game'.board.dwarfs = game.board.dwarfs \ smashed
                 /\ game'.board.stones = game.board.stones
                 /\ game'.trollScore = game.trollScore + Cardinality(smashed)
                 /\ game'.dwarfScore = game.dwarfScore
                 /\ turn(game') = "Dwarf"]_vars

\* C11: a thud_move along a straight line with an occupied cell strictly
\* between src and dest is rejected, whatever dest holds, and the board is
\* left unchanged.
C11_BlockedSlideRejected ==
    [][(/\ Called({"thud_move"})
        /\ call'.thud = "handle" /\ call'.src # NullPtr /\ call'.dest # NullPtr
        /\ Straight(call'.src, call'.dest)
        /\ \E c \in Between(call'.src, call'.dest) : PieceAt(game.board, c) # "Empty")
          => /\ ret' = <<-2>>
             /\ game'.board = game.board]_vars

\* C12: a thud_troll_cap succeeds only if every requested direction points
\* from src at an adjacent Troll; it then removes exactly those Trolls,
\* leaves the Dwarf at src where it is and adds the number of requested
\* directions to the Dwarf score; if some requested direction does not point
\* at an adjacent Troll, no Troll is captured.
C12_BatchCapture ==
    [][(/\ Called({"thud_troll_cap"})
        /\ call'.thud = "handle" /\ call'.src # NullPtr /\ call'.targets # NullPtr)
          => LET src == call'.src
                 want == {d \in 0 .. 7 : call'.targets[d + 1] = 1}
                 hit == {Step(src, d, 1) : d \in want}
                 allTrolls == \A c \in hit : PieceAt(game.board, c) = "Troll"
             IN  /\ ret' = <<0>>
                      => /\ allTrolls
                         /\ PieceAt(game.board, src) = "Dwarf"
                         /\ game'.board.trolls = game.board.trolls \ hit
                         /\ game'.board.dwarfs = game.board.dwarfs
                         /\ game'.dwarfScore = game.dwarfScore + Cardinality(want)
                 /\ ~allTrolls
                      => /\ game'.board.trolls = game.board.trolls
                         /\ game'.dwarfScore = game.dwarfScore]_vars

\* C13: the centre cell holds the Thudstone and no other cell does, in the
\* game and in every grid thud_get_board hands out; no Dwarf or Troll stands
\* on the centre cell.
C13_ThudstoneFixed ==
    /\ game.board.stones = {Centre}
    /\ Centre \notin (game.board.dwarfs \cup game.board.trolls)
    /\ (call.op = "thud_get_board" /\ call.thud = "handle" /\ ~crashed)
          => \A x \in Idx, y \in Idx :
                 (CodeAt(boardOut, x, y) = 3) <=> (<<x, y>> = Centre)

\* C14: queried right after thud_new, the game reports Dwarf to move (0), not
\* yet ended (3), the score pair (0, 0) and the Thudstone (3) on the centre
\* cell.
C14_CanonicalStart ==
    [][(thudAlloc = "live" /\ call'.thud = "handle" /\ ~crashed')
          => /\ call'.op = "thud_get_turn" => ret' = <<0>>
             /\ call'.op = "thud_get_winner" => ret' = <<3>>
             /\ call'.op = "thud_get_score" => scoreOut' = <<0, 0>>
             /\ call'.op = "thud_get_board" => CodeAt(boardOut', 7, 7) = 3]_vars

\* C15: the pair read from thud_get_score is (Dwarf score, Troll score) of
\* the game, in that order, and neither score of a game ever decreases.
C15_ScorePair ==
    [][/\ (Called({"thud_get_score"}) /\ call'.thud = "handle")
             => scoreOut' = <<game'.dwarfScore, game'.trollScore>>
       /\ (call'.op # "thud_new" /\ ~crashed')
             => /\ game'.dwarfScore >= game.dwarfScore
                /\ game'.trollScore >= game.trollScore]_vars

\* C17: a successful mutating call that leaves one side without pieces ends
\* the game in favour of the other side; from then on thud_get_winner reports
\* that side, thud_get_turn reports 2 and a mutating call returns -2.
C17_LastPieceEndsGame ==
    [][/\ (Called(MutatingOps) /\ ret' = <<0>>)
             => /\ game'.board.dwarfs = {} => game'.state = "WonTroll"
                /\ game'.board.trolls = {} => game'.state = "WonDwarf"
       /\ (/\ call.op \in MutatingOps /\ ret = <<0>>
           /\ game.board.dwarfs = {} \/ game.board.trolls = {}
           /\ call'.thud = "handle" /\ ~crashed')
             => /\ call'.op = "thud_get_winner"
                      => ret' = <<IF game.board.dwarfs = {} THEN 1 ELSE 0>>
                /\ call'.op = "thud_get_turn" => ret' = <<2>>
                /\ (/\ call'.op \in MutatingOps
                    /\ ~AnyNull(call'.thud, call'.src,
                                IF call'.op = "thud_troll_cap"
                                THEN call'.targets ELSE call'.dest))
                      => ret' = <<-2>>]_vars

\* C19: thud_get_turn and thud_get_winner, called one after the other on a
\* game in either order, agree: the turn is 2 exactly when the winner is 0, 1
\* or 2, and 0 or 1 exactly when the winner is 3.
C19_StatusQueriesAgree ==
    [][(/\ {call.op, call'.op} = {"thud_get_turn", "thud_get_winner"}
        /\ call.thud = "handle" /\ call'.thud = "handle" /\ ~crashed')
          => LET t == IF call.op = "thud_get_turn" THEN ret[1] ELSE ret'[1]
                 w == IF call.op = "thud_get_winner" THEN ret[1] ELSE ret'[1]
             IN  /\ t = 2 <=> w \in {0, 1, 2}
                 /\ t \in {0, 1} <=> w = 3]_vars

\* C20: the grid returned by thud_get_board has, for every cell of the 15 x 15
\* grid, the code of the piece the game has there (0 empty or outside the
\* octagon, 1 Dwarf, 2 Troll, 3 Thudstone), and a later operation does not
\* change what is read from it.
C20_BoardCopy ==
    [][/\ (Called({"thud_get_board"}) /\ call'.thud = "handle")
             => \A x \in Idx, y \in Idx :
                    CodeAt(boardOut', x, y) =
                        IF ~InOctagon(x, y) THEN 0
                        ELSE IF <<x, y>> \in game'.board.dwarfs THEN 1
                        ELSE IF <<x, y>> \in game'.board.trolls THEN 2
                        ELSE IF <<x, y>> \in game'.board.stones THEN 3
                        ELSE 0
       /\ call'.op # "thud_get_board" => boardOut' = boardOut]_vars

\* C18: after a successful mutating call the game is ended exactly when the
\* side now to move has no legal action (a Draw when the side that moved has
\* none either, otherwise a win of the side that moved), and thud_get_winner,
\* called next, reports that outcome: 3 while the side to move has a legal
\* action and both sides have pieces.
C18_Outcome(b, mover) ==
    IF HasAction(b, Opp(mover)) THEN "InProgress"
    ELSE IF ~HasAction(b, mover) THEN "Draw"
    ELSE IF mover = "Dwarf" THEN "WonDwarf" ELSE "WonTroll"

C18_ImmobilizedSideLoses ==
    [][/\ (/\ Called(MutatingOps) /\ ret' = <<0>>
           /\ game'.board.dwarfs # {} /\ game'.board.trolls # {})
             => game'.state = C18_Outcome(game'.board, seen'.turn)
       /\ (/\ call.op \in MutatingOps /\ ret = <<0>>
           /\ game.board.dwarfs # {} /\ game.board.trolls # {}
           /\ Called({"thud_get_winner"}) /\ call'.thud = "handle")
             => ret' = <<WinnerRet(C18_Outcome(game.board, seen.turn))>>]_vars

\* C16: coord_new returns a non-null pointer exactly for the pairs inside the
\* octagon (row y of the 15 x 15 grid without the first and the last
\* max(0, 5 - y, y - 9) cells), null for every other pair, and leaves the
\* game as it is.
C16_InRow(x, y) ==
    LET cut == Max(0, Max(5 - y, y - 9))
    IN  y >= 0 /\ y <= 14 /\ x >= cut /\ x <= 14 - cut

C16_CoordNewOctagon ==
    [][(coordOut' # coordOut /\ coordOut'.op = "coord_new")
          => /\ coordOut'.ptr # NullPtr
                    <=> C16_InRow(coordOut'.args[1], coordOut'.args[2])
             /\ coordOut'.ptr # NullPtr => coordOut'.ptr = coordOut'.args
             /\ UNCHANGED thudVars]_vars

\* a pair in a cut corner, next to the playable cell (5, 0), was refused
C16_Witness ==
    /\ coordOut.op = "coord_new"
    /\ coordOut.args = <<4, 0>>
    /\ coordOut.ptr = NullPtr

====
